---- MODULE Spec2Model ----
(***************************************************************************)
(* xtabbie: the window switcher's session state machine                    *)
(* (src/src/switcher.rs), in its two modes: test mode (run_test_mode) and  *)
(* daemon mode (run_daemon_mode / show_switcher / run_switcher_loop).      *)
(*                                                                         *)
(* The X server is the environment.  Every request the code sends with `?` *)
(* may fail, and the failure takes the code's early return.  A request     *)
(* that returned Ok has had its effect (the surface exists, the grab is    *)
(* held or released).                                                      *)
(***************************************************************************)
EXTENDS Integers, Naturals, Sequences, FiniteSets, TLC

\* ---------------------------------------------------------------- bounds
\* Longest list collect_windows_by_zorder hands to deduplicate_windows.
MaxWindows == 3
\* Tab presses recorded per session.
MaxTabs == 2
\* Widest screen of the contiguous range of widths given to calculate_layout.
MaxScreenWidth == 200
\* Largest candidate count of the contiguous range given to calculate_layout.
MaxWindowCount == 25
\* Most windows below the root in the trees given to collect_windows_by_zorder.
MaxNodes == 3
\* Longest chain of windows given to find_window_with_title.
MaxChain == 12
\* Longest word buffer given to find_best_icon.
MaxWords == 6
\* Largest width and height of the bitmaps given to BwIcon::scale.
MaxSide == 2
\* Largest of the contiguous range of target sizes given to BwIcon::scale.
MaxTarget == 3

\* ------------------------------------------------------ program constants
TAB_KEYCODE == 23
ALT_L_KEYCODE == 64
ALT_R_KEYCODE == 108
ESCAPE_KEYCODE == 9
RETURN_KEYCODE == 36

\* A key the switcher has no arm for (keycode 38, the letter a).
Keycodes ==
    {TAB_KEYCODE, ALT_L_KEYCODE, ALT_R_KEYCODE, ESCAPE_KEYCODE, RETURN_KEYCODE, 38}

Titles == {"A", "B", "C"}

\* The window handle of the i-th entry the enumeration reports.
Wid(i) == 100 + i

\* ----------------------------------------------------------------- events
NoEvent == [type |-> "None", detail |-> 0, shift |-> FALSE]
\* wait_for_event() returned an error instead of an event.
WaitFailed == [type |-> "Error", detail |-> 0, shift |-> FALSE]

\* What conn.wait_for_event() can deliver: Expose, KeyPress and KeyRelease
\* (detail: the keycode; shift: KeyButMask::SHIFT in ev.state, which the code
\* reads for a Tab press only), anything else.
Events ==
    {[type |-> "Expose", detail |-> 0, shift |-> FALSE],
     [type |-> "Other", detail |-> 0, shift |-> FALSE],
     [type |-> "KeyPress", detail |-> TAB_KEYCODE, shift |-> TRUE]}
    \cup {[type |-> t, detail |-> k, shift |-> FALSE] :
            t \in {"KeyPress", "KeyRelease"}, k \in Keycodes}

VARIABLES
    mode,         \* "test" | "daemon": main's --test flag
    pc,           \* where the control loop stands
    shift_held,   \* show_switcher's argument (FALSE in test mode: no argument)
    window_list,  \* create_switcher_window's local: the enumeration's list
    windows,      \* SwitcherWindow.windows
    selected,     \* the selected index
    surface,      \* the switcher window: "none" | "created" | "mapped" | "destroyed"
    kb_grab,      \* the keyboard grab is held
    acquired,     \* the keyboard grab was acquired in this session
    activated,    \* the handles activate_window was called with, this session
    closeKind,    \* how the session ended
    result,       \* the Result the event loop returned: "none" | "ok" | "err"
    failedCall,   \* the request whose failure ended the session, or "none"
    exitOk,       \* main's return value once pc = "exited"
    lastEv,       \* the last event the session's loop took
    prevSel,      \* the selected index before that event
    initSel,      \* the selected index on entering the loop
    tabs,         \* the Shift states of the Tab presses taken in this session
    call,         \* a function called on its own: its name and arguments
    ret           \* what that call returned, once it has

\* The session's variables.
vars ==
    <<mode, pc, shift_held, window_list, windows, selected, surface,
      kb_grab, acquired, activated, closeKind, result, failedCall, exitOk,
      lastEv, prevSel, initSel, tabs>>

\* The variables of a function called on its own.
fnvars == <<call, ret>>

allvars == <<vars, fnvars>>

\* No function is called on its own while a session runs.
NoCall == [fn |-> "none"]
\* The call has not returned.
Pending == [done |-> FALSE]

\* ------------------------------------------------------- pure functions

\* usize subtraction; Underflow marks a - b with a < b (panic or wrap).
Underflow == 0 - 1
USub(a, b) == IF a >= b THEN a - b ELSE Underflow

initial_selection_AlwaysSecond(window_count, shift) ==
    IF shift THEN USub(window_count, 1) ELSE 1

initial_selection(window_count, shift) ==
    IF window_count > 1
    THEN IF shift THEN USub(window_count, 1) ELSE 1
    ELSE 0

navigate_selection_NoWrap(current, count, shift) ==
    IF shift
    THEN IF current = 0 THEN USub(count, 1) ELSE USub(current, 1)
    ELSE current + 1

navigate_selection_Clamp(current, count, shift) ==
    IF shift
    THEN IF current = 0 THEN USub(count, 1) ELSE USub(current, 1)
    ELSE IF current + 1 >= count THEN current ELSE current + 1

navigate_selection_IgnoresShift(current, count, shift) ==
    IF count = 0 THEN current ELSE (current + 1) % count

navigate_selection_NoZeroCase(current, count, shift) ==
    IF shift
    THEN USub(current, 1)
    ELSE (current + 1) % count

navigate_selection(current, count, shift) ==
    IF shift
    THEN IF current = 0 THEN USub(count, 1) ELSE USub(current, 1)
    ELSE (current + 1) % count

\* should_show_in_switcher: the window has WM_STATE.
should_show_in_switcher(w) == w.managed

RECURSIVE DedupFrom_MarksFiltered(_, _, _)
DedupFrom_MarksFiltered(list, seen, acc) ==
    IF list = << >> THEN acc
    ELSE LET w == Head(list) IN
         IF w.title \in seen
         THEN DedupFrom_MarksFiltered(Tail(list), seen, acc)
         ELSE DedupFrom_MarksFiltered(
                  Tail(list), seen \cup {w.title},
                  IF should_show_in_switcher(w)
                  THEN Append(acc, [wid |-> w.wid, title |-> w.title])
                  ELSE acc)

RECURSIVE DedupFrom(_, _, _)
DedupFrom(list, seen, acc) ==
    IF list = << >> THEN acc
    ELSE LET w == Head(list) IN
         IF ~should_show_in_switcher(w)
         THEN DedupFrom(Tail(list), seen, acc)
         ELSE IF w.title \notin seen
              THEN DedupFrom(Tail(list), seen \cup {w.title},
                             Append(acc, [wid |-> w.wid, title |-> w.title]))
              ELSE DedupFrom(Tail(list), seen, acc)

deduplicate_windows_NoDedup(list) ==
    LET kept == SelectSeq(list, should_show_in_switcher)
    IN [i \in 1..Len(kept) |-> [wid |-> kept[i].wid, title |-> kept[i].title]]

deduplicate_windows(list) == DedupFrom(list, {}, << >>)

\* The lists the enumeration can hand over: distinct handles, any titles,
\* managed or not.
WindowLists ==
    UNION {
        {[i \in 1..n |-> [wid |-> Wid(i), title |-> t[i], managed |-> m[i]]] :
            t \in [1..n -> Titles], m \in [1..n -> BOOLEAN]}
        : n \in 0..MaxWindows}


\* ------------------------------------------------------ event dispatch

test_mode_match_EscapeCommits(ev) ==
    CASE ev.type = "Expose" -> "redraw"
      [] ev.type = "KeyPress" ->
            (CASE ev.detail = TAB_KEYCODE -> "navigate"
               [] ev.detail = RETURN_KEYCODE -> "commit"
               [] ev.detail = ESCAPE_KEYCODE -> "commit"
               [] OTHER -> "ignore")
      [] OTHER -> "ignore"

\* run_test_mode's match on the event.
test_mode_match(ev) ==
    CASE ev.type = "Expose" -> "redraw"
      [] ev.type = "KeyPress" ->
            (CASE ev.detail = TAB_KEYCODE -> "navigate"
               [] ev.detail = RETURN_KEYCODE -> "commit"
               [] ev.detail = ESCAPE_KEYCODE -> "cancel"
               [] OTHER -> "ignore")
      [] OTHER -> "ignore"

switcher_loop_match_ReturnCommits(ev) ==
    CASE ev.type = "Expose" -> "redraw"
      [] ev.type = "KeyPress" ->
            (CASE ev.detail = TAB_KEYCODE -> "navigate"
               [] ev.detail = RETURN_KEYCODE -> "commit"
               [] ev.detail = ESCAPE_KEYCODE -> "cancel"
               [] OTHER -> "ignore")
      [] ev.type = "KeyRelease" ->
            IF ev.detail = ALT_L_KEYCODE \/ ev.detail = ALT_R_KEYCODE
            THEN "commit"
            ELSE "ignore"
      [] OTHER -> "ignore"

\* run_switcher_loop's match on the event.
switcher_loop_match(ev) ==
    CASE ev.type = "Expose" -> "redraw"
      [] ev.type = "KeyPress" ->
            (CASE ev.detail = TAB_KEYCODE -> "navigate"
               [] ev.detail = ESCAPE_KEYCODE -> "cancel"
               [] OTHER -> "ignore")
      [] ev.type = "KeyRelease" ->
            IF ev.detail = ALT_L_KEYCODE \/ ev.detail = ALT_R_KEYCODE
            THEN "commit"
            ELSE "ignore"
      [] OTHER -> "ignore"

Effect(m, ev) == IF m = "test" THEN test_mode_match(ev) ELSE switcher_loop_match(ev)

CommitTarget_First(ws, sel) == ws[1].wid

\* The handle the commit arm passes to activate_window.
CommitTarget(ws, sel) == ws[sel + 1].wid

\* ------------------------------------------------------------------ Init

SessionInit ==
    /\ mode \in {"test", "daemon"}
    /\ pc = "main"
    /\ shift_held = FALSE
    /\ window_list = << >>
    /\ windows = << >>
    /\ selected = 0
    /\ surface = "none"
    /\ kb_grab = FALSE
    /\ acquired = FALSE
    /\ activated = << >>
    /\ closeKind = "none"
    /\ result = "none"
    /\ failedCall = "none"
    /\ exitOk = TRUE
    /\ lastEv = NoEvent
    /\ prevSel = 0
    /\ initSel = 0
    /\ tabs = << >>

Init ==
    /\ SessionInit
    /\ call = NoCall
    /\ ret = Pending

\* A session starts with nothing of the previous one: show_switcher's and
\* run_test_mode's locals are new on every call.
NewSession(shift) ==
    /\ shift_held' = shift
    /\ window_list' = << >>
    /\ windows' = << >>
    /\ selected' = 0
    /\ surface' = "none"
    /\ acquired' = FALSE
    /\ activated' = << >>
    /\ closeKind' = "none"
    /\ result' = "none"
    /\ failedCall' = "none"
    /\ lastEv' = NoEvent
    /\ prevSel' = 0
    /\ initSel' = 0
    /\ tabs' = << >>

\* The process ends: main returns what the mode's function returned.
Exit(ok) ==
    /\ pc' = "exited"
    /\ exitOk' = ok

\* ------------------------------------------------------------- main

\* main with --test: run_test_mode is entered.
RunTestMode ==
    /\ pc = "main"
    /\ UNCHANGED fnvars
    /\ mode = "test"
    /\ NewSession(FALSE)
    /\ pc' = "create"
    /\ UNCHANGED <<mode, kb_grab, exitOk>>

\* main without --test: run_daemon_mode grabs Alt+Tab and Alt+Shift+Tab on
\* the root window and flushes; each of the three calls may fail.
RunDaemonMode ==
    /\ pc = "main"
    /\ UNCHANGED fnvars
    /\ mode = "daemon"
    /\ \E ok \in BOOLEAN :
          IF ok
          THEN pc' = "daemon_wait" /\ UNCHANGED <<exitOk, failedCall>>
          ELSE Exit(FALSE) /\ failedCall' = "grab_key"
    /\ UNCHANGED <<mode, shift_held, window_list, windows, selected,
                   surface, kb_grab, acquired, activated, closeKind, result,
                   lastEv, prevSel, initSel, tabs>>

\* ------------------------------------------------------ the daemon loop

\* wait_for_event()? fails in the daemon loop.
DaemonWaitError ==
    /\ pc = "daemon_wait"
    /\ UNCHANGED fnvars
    /\ Exit(FALSE)
    /\ UNCHANGED <<mode, shift_held, window_list, windows, selected,
                   surface, kb_grab, acquired, activated, closeKind, result,
                   failedCall, lastEv, prevSel, initSel, tabs>>

\* A KeyPress of Tab in the daemon loop: show_switcher(shift_held) is called.
DaemonTabPress ==
    /\ pc = "daemon_wait"
    /\ UNCHANGED fnvars
    /\ \E ev \in Events :
          /\ ev.type = "KeyPress"
          /\ ev.detail = TAB_KEYCODE
          /\ NewSession(ev.shift)
    /\ pc' = "create"
    /\ UNCHANGED <<mode, kb_grab, exitOk>>

\* Any other event in the daemon loop is dropped.
DaemonOtherEvent ==
    /\ pc = "daemon_wait"
    /\ UNCHANGED fnvars
    /\ \E ev \in Events : ~(ev.type = "KeyPress" /\ ev.detail = TAB_KEYCODE)
    /\ UNCHANGED vars


\* --------------------------------------------------- the switcher session

\* create_x11_window's requests, in the order it sends them.
CreateCalls ==
    <<"generate_id", "create_window", "create_gc", "change_property8",
      "map_window", "flush_after_map">>

\* The surface after create_x11_window sent its first n requests.
SurfaceAfter(n) ==
    IF n >= 5 THEN "mapped" ELSE IF n >= 2 THEN "created" ELSE "none"

\* create_switcher_window: the enumeration's list is filtered and
\* deduplicated, then create_x11_window creates and maps the surface, whatever
\* the number of candidates.  The first failing request returns the error,
\* which show_switcher / run_test_mode and then main return in turn.
CreateSwitcherWindow ==
    /\ pc = "create"
    /\ UNCHANGED fnvars
    /\ \E list \in WindowLists :
          /\ window_list' = list
          /\ windows' = deduplicate_windows(list)
    /\ \E n \in 0..Len(CreateCalls) :
          /\ surface' = SurfaceAfter(n)
          /\ IF n = Len(CreateCalls)
             THEN /\ pc' = "created"
                  /\ UNCHANGED <<closeKind, failedCall, exitOk>>
             ELSE /\ closeKind' = "error"
                  /\ failedCall' = CreateCalls[n + 1]
                  /\ Exit(FALSE)
    /\ UNCHANGED <<mode, shift_held, selected, kb_grab, acquired,
                   activated, result, lastEv, prevSel, initSel, tabs>>

\* switcher.windows.is_empty(): run_test_mode returns Ok at once;
\* show_switcher destroys the surface and flushes first.
EmptyReturn ==
    /\ pc = "created"
    /\ UNCHANGED fnvars
    /\ windows = << >>
    /\ closeKind' = "empty"
    /\ IF mode = "test"
       THEN /\ Exit(TRUE)
            /\ UNCHANGED <<surface, failedCall>>
       ELSE \E failed \in {"none", "destroy_window", "flush_after_destroy"} :
               /\ failedCall' = failed
               /\ surface' = IF failed = "destroy_window" THEN surface ELSE "destroyed"
               /\ IF failed = "none"
                  THEN pc' = "daemon_wait" /\ UNCHANGED exitOk
                  ELSE Exit(FALSE)
    /\ window_list' = << >>
    /\ UNCHANGED <<mode, shift_held, windows, selected, kb_grab, acquired,
                   activated, result, lastEv, prevSel, initSel, tabs>>

\* The session opens.  run_test_mode starts at index 0.  show_switcher starts
\* at initial_selection, then grabs the keyboard (the server grants the grab
\* or not: the reply is never read) and flushes.
OpenSession ==
    /\ pc = "created"
    /\ UNCHANGED fnvars
    /\ windows # << >>
    /\ IF mode = "test"
       THEN /\ selected' = 0
            /\ initSel' = 0
            /\ pc' = "loop"
            /\ UNCHANGED <<kb_grab, acquired, closeKind, failedCall, exitOk>>
       ELSE /\ selected' = initial_selection(Len(windows), shift_held)
            /\ initSel' = initial_selection(Len(windows), shift_held)
            /\ \E failed \in {"none", "grab_keyboard", "flush_after_grab"},
                  granted \in BOOLEAN :
                  /\ failedCall' = failed
                  /\ kb_grab' = (failed # "grab_keyboard" /\ granted)
                  /\ acquired' = (failed # "grab_keyboard" /\ granted)
                  /\ IF failed = "none"
                     THEN pc' = "loop" /\ UNCHANGED <<closeKind, exitOk>>
                     ELSE closeKind' = "error" /\ Exit(FALSE)
    /\ window_list' = << >>
    /\ UNCHANGED <<mode, shift_held, windows, surface, activated, result,
                   lastEv, prevSel, tabs>>

\* The event loop returns r: run_test_mode returns it to main; show_switcher
\* keeps it and goes on to its cleanup.
LoopReturns(r) ==
    /\ result' = r
    /\ IF mode = "test"
       THEN Exit(r = "ok")
       ELSE pc' = "cleanup" /\ UNCHANGED exitOk

\* wait_for_event()? fails in the session's loop: no event is taken.
LoopWaitError ==
    /\ pc = "loop"
    /\ UNCHANGED fnvars
    /\ lastEv' = WaitFailed
    /\ prevSel' = selected
    /\ closeKind' = "error"
    /\ failedCall' = "wait_for_event"
    /\ LoopReturns("err")
    /\ UNCHANGED <<mode, shift_held, window_list, windows, selected,
                   surface, kb_grab, acquired, activated, initSel, tabs>>

\* The outcome of draw_switcher(...)?: the loop goes on, or returns the error.
Drawn(ok) ==
    IF ok
    THEN UNCHANGED <<pc, closeKind, result, failedCall, exitOk>>
    ELSE /\ closeKind' = "error"
         /\ failedCall' = "draw_switcher"
         /\ LoopReturns("err")

\* Expose: the switcher is drawn again.
Redraw ==
    /\ pc = "loop"
    /\ UNCHANGED fnvars
    /\ \E ev \in Events :
          /\ Effect(mode, ev) = "redraw"
          /\ lastEv' = ev
    /\ prevSel' = selected
    /\ \E ok \in BOOLEAN : Drawn(ok)
    /\ UNCHANGED <<mode, shift_held, window_list, windows, selected,
                   surface, kb_grab, acquired, activated, initSel, tabs>>

\* KeyPress of Tab: the selection moves, then the switcher is drawn.
Navigate ==
    /\ pc = "loop"
    /\ UNCHANGED fnvars
    /\ Len(tabs) < MaxTabs
    /\ \E ev \in Events :
          /\ Effect(mode, ev) = "navigate"
          /\ lastEv' = ev
          /\ selected' = navigate_selection(selected, Len(windows), ev.shift)
          /\ tabs' = Append(tabs, ev.shift)
    /\ prevSel' = selected
    /\ \E ok \in BOOLEAN : Drawn(ok)
    /\ UNCHANGED <<mode, shift_held, window_list, windows, surface,
                   kb_grab, acquired, activated, initSel>>

Cancel_Activates ==
    /\ pc = "loop"
    /\ UNCHANGED fnvars
    /\ \E ev \in Events :
          /\ Effect(mode, ev) = "cancel"
          /\ lastEv' = ev
    /\ prevSel' = selected
    /\ activated' = Append(activated, CommitTarget(windows, selected))
    /\ closeKind' = "cancelled"
    /\ LoopReturns("ok")
    /\ UNCHANGED <<mode, shift_held, window_list, windows, selected,
                   surface, kb_grab, acquired, failedCall, initSel, tabs>>

\* KeyPress of Escape: the loop ends with Ok and no activation.
Cancel ==
    /\ pc = "loop"
    /\ UNCHANGED fnvars
    /\ \E ev \in Events :
          /\ Effect(mode, ev) = "cancel"
          /\ lastEv' = ev
    /\ prevSel' = selected
    /\ closeKind' = "cancelled"
    /\ LoopReturns("ok")
    /\ UNCHANGED <<mode, shift_held, window_list, windows, selected,
                   surface, kb_grab, acquired, activated, failedCall, initSel,
                   tabs>>

\* The mode's commit trigger: activate_window is called with the selected
\* candidate's handle, and the loop ends with what it returned (its two
\* flushes may fail).
Commit ==
    /\ pc = "loop"
    /\ UNCHANGED fnvars
    /\ \E ev \in Events :
          /\ Effect(mode, ev) = "commit"
          /\ lastEv' = ev
    /\ prevSel' = selected
    /\ activated' = Append(activated, CommitTarget(windows, selected))
    /\ closeKind' = "committed"
    /\ \E ok \in BOOLEAN :
          /\ failedCall' = IF ok THEN failedCall ELSE "activate_window"
          /\ LoopReturns(IF ok THEN "ok" ELSE "err")
    /\ UNCHANGED <<mode, shift_held, window_list, windows, selected,
                   surface, kb_grab, acquired, initSel, tabs>>

\* Every other event: nothing happens.
Ignore ==
    /\ pc = "loop"
    /\ UNCHANGED fnvars
    /\ \E ev \in Events :
          /\ Effect(mode, ev) = "ignore"
          /\ lastEv' = ev
    /\ prevSel' = selected
    /\ UNCHANGED <<mode, pc, shift_held, window_list, windows,
                   selected, surface, kb_grab, acquired, activated, closeKind,
                   result, failedCall, exitOk, initSel, tabs>>

\* ungrab_keyboard()?, destroy_window()?, flush()?, then the loop's result.
\* The first failing request returns its error instead.
CleanupCalls ==
    \E failed \in {"none", "ungrab_keyboard", "destroy_window",
                   "flush_after_destroy"} :
       /\ kb_grab' = IF failed = "ungrab_keyboard" THEN kb_grab ELSE FALSE
       /\ surface' = IF failed \in {"ungrab_keyboard", "destroy_window"}
                     THEN surface ELSE "destroyed"
       /\ failedCall' = IF failed = "none" THEN failedCall ELSE failed
       /\ IF failed = "none" /\ result = "ok"
          THEN pc' = "daemon_wait" /\ UNCHANGED exitOk
          ELSE Exit(FALSE)

Cleanup_SkipOnError ==
    /\ pc = "cleanup"
    /\ UNCHANGED fnvars
    /\ IF result = "err"
       THEN Exit(FALSE) /\ UNCHANGED <<kb_grab, surface, failedCall>>
       ELSE CleanupCalls
    /\ UNCHANGED <<mode, shift_held, window_list, windows, selected,
                   acquired, activated, closeKind, result, lastEv, prevSel,
                   initSel, tabs>>

\* show_switcher's cleanup after the loop, whatever the loop returned.
Cleanup ==
    /\ pc = "cleanup"
    /\ UNCHANGED fnvars
    /\ CleanupCalls
    /\ UNCHANGED <<mode, shift_held, window_list, windows, selected,
                   acquired, activated, closeKind, result, lastEv, prevSel,
                   initSel, tabs>>

Next ==
    \/ RunTestMode
    \/ RunDaemonMode
    \/ DaemonWaitError
    \/ DaemonTabPress
    \/ DaemonOtherEvent
    \/ CreateSwitcherWindow
    \/ EmptyReturn
    \/ OpenSession
    \/ LoopWaitError
    \/ Redraw
    \/ Navigate
    \/ Cancel
    \/ Commit
    \/ Ignore
    \/ Cleanup

Spec == Init /\ [][Next]_allvars


\* ======================================================= calculate_layout
ICON_SIZE == 48
PADDING == 8
MAX_COLS == 20

\* Number of values of a u16.
U16 == 2 ^ 16

\* The two cargo profiles: with overflow checks (debug) an overflowing
\* operation panics, without them (release) it wraps.
Builds == {"debug", "release"}

Min2(a, b) == IF a <= b THEN a ELSE b
Max2(a, b) == IF a >= b THEN a ELSE b

\* screen.width_in_pixels is a u16: a range from 0 and a few wide screens.
ScreenWidths == (0..MaxScreenWidth) \cup {1280, 1920, 3840, U16 - 1}

\* window_count is a usize: a range from 0 and counts around the u16 limit.
WindowCounts == (0..MaxWindowCount) \cup {U16 - 1, U16, U16 + 1, U16 + 25}

\* (width as f32 * 0.8) as u16.  A u16 is exact in f32; 0.8f32 exceeds 0.8 by
\* less than 1.2e-8 and the product is rounded by at most 2^-9, while the
\* fraction of 0.8 * width is 0 or lies in [0.2, 0.8]: the truncated product
\* is floor(4 * width / 5).
ScaledWidth(width) == (4 * width) \div 5

\* The value calculate_layout returns, or a panic.
LayoutPanic == [done |-> TRUE, panicked |-> TRUE, wrapped |-> FALSE, cols |-> 0, win_width |-> 0]

calculate_layout(build, width, window_count) ==
    LET max_width == ScaledWidth(width)
        underflow == max_width < PADDING
        difference == IF underflow THEN max_width - PADDING + U16 ELSE max_width - PADDING
        max_cols_by_width == Max2(difference \div (ICON_SIZE + PADDING), 1)
        cols == Max2(Min2(Min2(window_count % U16, max_cols_by_width), MAX_COLS), 1)
        win_width == cols * (ICON_SIZE + PADDING) + PADDING
    IN IF underflow /\ build = "debug"
       THEN LayoutPanic
       ELSE [done |-> TRUE, panicked |-> FALSE, wrapped |-> underflow,
             cols |-> cols, win_width |-> win_width]

LayoutCalls ==
    [fn : {"calculate_layout"}, build : Builds, width : ScreenWidths, count : WindowCounts]

InitLayout ==
    /\ SessionInit
    /\ mode = "test"
    /\ call \in LayoutCalls
    /\ ret = Pending

CalculateLayout ==
    /\ call.fn = "calculate_layout"
    /\ ~ret.done
    /\ ret' = calculate_layout(call.build, call.width, call.count)
    /\ UNCHANGED <<vars, call>>

NextLayout == CalculateLayout

SpecLayout == InitLayout /\ [][NextLayout]_allvars


\* ======================================= enumeration of the window tree
\* What the X server answers for one window: get_window_attributes
\* (viewable, unmapped or an error), the title properties (a title, none or
\* an error) and query_tree (the children or an error).  A server is a record
\* of four functions over its windows: attrs, title, tree and kids.
NodeKinds ==
    {k \in [attrs : {"viewable", "unmapped", "fail"},
            title : {"some", "none", "fail"},
            tree : {"ok", "fail"}] :
        /\ (k.attrs = "viewable" /\ k.title = "some") => k.tree = "ok"
        /\ k.attrs # "viewable" => k.title = "some"}

\* The root window is only asked for its children.
RootKinds == {k \in NodeKinds : k.attrs = "unmapped"}

NodeTitle(window) == IF window % 2 = 1 THEN "A" ELSE "B"

is_viewable_Always(x, window) == TRUE

\* is_viewable: a failed request counts as not viewable.
is_viewable(x, window) == x.attrs[window] = "viewable"

\* get_window_title: Some(title) or None, as a sequence of length <= 1.
\* The title "none" stands for a property that is absent, empty or all
\* whitespace in both _NET_WM_NAME and WM_NAME.
get_window_title(x, window) ==
    IF x.title[window] = "some" THEN <<NodeTitle(window)>> ELSE << >>

\* conn.query_tree(window) and its reply.
query_tree_AttributesFirst(x, window) ==
    IF x.tree[window] = "ok" /\ x.attrs[window] # "fail"
    THEN [ok |-> TRUE, children |-> x.kids[window]]
    ELSE [ok |-> FALSE, children |-> << >>]

query_tree(x, window) ==
    IF x.tree[window] = "ok"
    THEN [ok |-> TRUE, children |-> x.kids[window]]
    ELSE [ok |-> FALSE, children |-> << >>]

MAX_DEPTH == 10

TooDeep_OffByOne(depth) == depth > MAX_DEPTH + 1

\* if depth > MAX_DEPTH { return None; }
TooDeep(depth) == depth > MAX_DEPTH

\* Calls of find_window_with_title one search may make before it counts as
\* not returning: more than 2^12 - 1, the calls of a search of depth 0..11
\* over windows with two children each.
WalkFuel == 2 ^ 12

\* A search that returned None: the calls left, whether the calls ran out,
\* and the <<window, depth>> pairs whose attributes were requested.
NotFound(fuel, out, examined) ==
    [result |-> << >>, fuel |-> fuel, out |-> out, examined |-> examined]

RECURSIVE find_window_with_title(_, _, _, _)
RECURSIVE SearchChildren(_, _, _, _, _)

find_window_with_title(x, window, depth, fuel) ==
    IF fuel = 0 THEN NotFound(0, TRUE, {})
    ELSE IF TooDeep(depth) THEN NotFound(fuel - 1, FALSE, {})
    ELSE IF is_viewable(x, window) /\ get_window_title(x, window) # << >>
    THEN [result |-> <<[wid |-> window, title |-> get_window_title(x, window)[1]]>>,
          fuel |-> fuel - 1, out |-> FALSE, examined |-> {<<window, depth>>}]
    ELSE LET tree == query_tree(x, window)
         IN IF ~tree.ok
            THEN NotFound(fuel - 1, FALSE, {<<window, depth>>})
            ELSE LET r == SearchChildren(x, tree.children, 1, depth + 1, fuel - 1)
                 IN [r EXCEPT !.examined = @ \cup {<<window, depth>>}]

\* for child in tree.children { if let Some(result) = ... { return Some(result); } }
SearchChildren(x, children, i, depth, fuel) ==
    IF i > Len(children) THEN NotFound(fuel, FALSE, {})
    ELSE LET r == find_window_with_title(x, children[i], depth, fuel)
         IN IF r.result # << >> \/ r.out
            THEN r
            ELSE LET s == SearchChildren(x, children, i + 1, depth, r.fuel)
                 IN [s EXCEPT !.examined = @ \cup r.examined]

Reverse_Identity(s) == s

\* .iter().rev()
Reverse(s) == [i \in 1..Len(s) |-> s[Len(s) + 1 - i]]

\* .filter_map(|&child| find_window_with_title(conn, child, 0)).collect()
RECURSIVE FilterMap(_, _, _)
FilterMap(x, children, i) ==
    IF i > Len(children) THEN [list |-> << >>, out |-> FALSE, examined |-> {}]
    ELSE LET r == find_window_with_title(x, children[i], 0, WalkFuel)
             rest == FilterMap(x, children, i + 1)
         IN [list |-> r.result \o rest.list,
             out |-> r.out \/ rest.out,
             examined |-> r.examined \cup rest.examined]

collect_windows_by_zorder(x, root) ==
    LET tree == query_tree(x, root)
    IN IF ~tree.ok
       THEN [list |-> << >>, out |-> FALSE, examined |-> {}]
       ELSE FilterMap(x, Reverse(tree.children), 1)

\* The elements of a set of windows in ascending order.
Ascending(S) ==
    CHOOSE s \in [1..Cardinality(S) -> S] : \A i, j \in 1..Cardinality(S) : i < j => s[i] < s[j]

\* The window trees of n windows below the root 0: the parent of window i
\* is the root or a window created before it, and query_tree reports the
\* children of a window bottom-to-top, which here is by ascending handle.
Parents(n) == {p \in [1..n -> 0..n] : \A i \in 1..n : p[i] < i}

\* The server whose n windows have the parents p and the kinds k, and whose
\* root has the kind rk.
Server(n, p, k, rk) ==
    LET kind(w) == IF w = 0 THEN rk ELSE k[w]
    IN [attrs |-> [w \in 0..n |-> kind(w).attrs],
        title |-> [w \in 0..n |-> kind(w).title],
        tree |-> [w \in 0..n |-> kind(w).tree],
        kids |-> [w \in 0..n |-> Ascending({c \in 1..n : p[c] = w})]]

InitTree ==
    /\ SessionInit
    /\ mode = "test"
    /\ \E n \in 0..MaxNodes : \E p \in Parents(n) :
          \E k \in [1..n -> NodeKinds], rk \in RootKinds :
             call = [fn |-> "collect_windows_by_zorder", x |-> Server(n, p, k, rk), root |-> 0]
    /\ ret = Pending

CollectWindowsByZorder ==
    /\ call.fn = "collect_windows_by_zorder"
    /\ ~ret.done
    /\ ret' = [done |-> TRUE, value |-> collect_windows_by_zorder(call.x, call.root)]
    /\ UNCHANGED <<vars, call>>

NextTree == CollectWindowsByZorder

SpecTree == InitTree /\ [][NextTree]_allvars

\* ---- find_window_with_title on child relations that need not be trees
Titled == [attrs |-> "viewable", title |-> "some", tree |-> "ok"]
Untitled == [attrs |-> "viewable", title |-> "none", tree |-> "ok"]

\* A chain of len windows, window i the only child of window i - 1, none
\* with a title but window at (no window when at = 0).
ChainServer(len, at) ==
    [attrs |-> [w \in 1..len |-> "viewable"],
     title |-> [w \in 1..len |-> IF w = at THEN "some" ELSE "none"],
     tree |-> [w \in 1..len |-> "ok"],
     kids |-> [w \in 1..len |-> IF w < len THEN <<w + 1>> ELSE << >>]]

\* Two windows, each reporting up to two children among the two windows
\* (itself included): a child relation with cycles.
CycleKids == UNION {[1..n -> {1, 2}] : n \in 0..2}

CycleServer(k, kids) ==
    [attrs |-> [w \in {1, 2} |-> k[w].attrs],
     title |-> [w \in {1, 2} |-> k[w].title],
     tree |-> [w \in {1, 2} |-> k[w].tree],
     kids |-> kids]

WalkCall(x, window) ==
    [fn |-> "find_window_with_title", x |-> x, window |-> window, depth |-> 0]

InitWalk ==
    /\ SessionInit
    /\ mode = "test"
    /\ \/ \E len \in 1..MaxChain : \E at \in 0..len :
             call = WalkCall(ChainServer(len, at), 1)
       \/ \E k \in [{1, 2} -> {Titled, Untitled}], kids \in [{1, 2} -> CycleKids] :
             \E window \in {1, 2} : call = WalkCall(CycleServer(k, kids), window)
    /\ ret = Pending

FindWindowWithTitle ==
    /\ call.fn = "find_window_with_title"
    /\ ~ret.done
    /\ ret' = [done |-> TRUE,
               value |-> find_window_with_title(call.x, call.window, call.depth, WalkFuel)]
    /\ UNCHANGED <<vars, call>>

NextWalk == FindWindowWithTitle

SpecWalk == InitWalk /\ [][NextWalk]_allvars


\* ========================================================= find_best_icon
\* u32 values are kept below 2^31; a product is computed in 16-bit halves
\* so that no intermediate value reaches 2^31.
Lo16(a) == a % U16
Hi16(a) == a \div U16

\* a0 * b0 for a0, b0 < 2^16, as its two 16-bit halves.
MulLow(a0, b0) ==
    LET t0 == (a0 % 256) * b0
        t1 == (a0 \div 256) * b0
        s == (t1 % 256) * 256 + t0
    IN [hi |-> t1 \div 256 + s \div U16, lo |-> s % U16]

\* width * height on u32 without overflow checks: the product modulo 2^32,
\* as its two 16-bit halves.
wrapping_mul(a, b) ==
    [hi |-> (MulLow(Lo16(a), Lo16(b)).hi
             + ((Hi16(a) * Lo16(b)) % U16)
             + ((Lo16(a) * Hi16(b)) % U16)) % U16,
     lo |-> MulLow(Lo16(a), Lo16(b)).lo]

\* The product does not fit a u32: with overflow checks `width * height`
\* panics.
mul_overflows(a, b) ==
    \/ Hi16(a) * Hi16(b) > 0
    \/ Min2(Hi16(a) * Lo16(b), U16) + Min2(Lo16(a) * Hi16(b), U16)
          + MulLow(Lo16(a), Lo16(b)).hi >= U16

\* idx + 2 + pixel_count > data.len(), pixel_count the usize of the product.
ExceedsBuffer(idx, product, len) ==
    \/ product.hi >= U16 \div 2
    \/ idx + 2 + product.hi * U16 + product.lo > len

IAbs(v) == IF v < 0 THEN 0 - v ELSE v

\* best is None (<< >>) or Some record (<<r>>).  The i32 arithmetic is exact
\* for dimensions below 2^30.
should_replace_best(best, width, height, target_size) ==
    IF best = << >> THEN TRUE
    ELSE LET target == target_size
             best_diff == IAbs(best[1].width - target) + IAbs(best[1].height - target)
             this_diff == IAbs(width - target) + IAbs(height - target)
         IN this_diff < best_diff \/ (this_diff = best_diff /\ width >= target_size)

\* The while loop of find_best_icon from word idx (0-based) on.  accepted
\* lists the records taken, reads the indexes of data[..] and of the pixel
\* slices.
RECURSIVE ParseFrom(_, _, _, _, _, _, _)
ParseFrom(build, data, target_size, idx, best, accepted, reads) ==
    IF ~(idx + 2 < Len(data))
    THEN [panicked |-> FALSE, best |-> best, accepted |-> accepted, reads |-> reads]
    ELSE LET width == data[idx + 1]
             height == data[idx + 2]
             product == wrapping_mul(width, height)
             read == reads \cup {idx, idx + 1}
         IN IF mul_overflows(width, height) /\ build = "debug"
            THEN [panicked |-> TRUE, best |-> << >>, accepted |-> accepted, reads |-> read]
            ELSE IF width = 0 \/ height = 0 \/ ExceedsBuffer(idx, product, Len(data))
            THEN [panicked |-> FALSE, best |-> best, accepted |-> accepted, reads |-> read]
            ELSE LET pixel_count == product.hi * U16 + product.lo
                     rec == [width |-> width, height |-> height,
                             start |-> idx + 2, count |-> pixel_count]
                 IN ParseFrom(build, data, target_size, idx + 2 + pixel_count,
                              IF should_replace_best(best, width, height, target_size)
                              THEN <<rec>> ELSE best,
                              Append(accepted, rec),
                              read \cup {i \in 0..(idx + 1 + pixel_count) : i >= idx + 2})

find_best_icon(build, data, target_size) ==
    ParseFrom(build, data, target_size, 0, << >>, << >>, {})

\* Words of an icon buffer: small dimensions and pixels, and 2^16, whose
\* square is 2^32.
IconWords == {0, 1, 2, U16}

\* target_size is a u16.
TargetSizes == {2, U16 - 1}

IconCalls ==
    [fn : {"find_best_icon"},
     build : Builds,
     data : UNION {[1..n -> IconWords] : n \in 0..MaxWords},
     target_size : TargetSizes]

InitIcon ==
    /\ SessionInit
    /\ mode = "test"
    /\ call \in IconCalls
    /\ ret = Pending

FindBestIcon ==
    /\ call.fn = "find_best_icon"
    /\ ~ret.done
    /\ ret' = [done |-> TRUE,
               value |-> find_best_icon(call.build, call.data, call.target_size)]
    /\ UNCHANGED <<vars, call>>

NextIcon == FindBestIcon

SpecIcon == InitIcon /\ [][NextIcon]_allvars


\* ============================================================= argb_to_bw
\* A pixel is <<A, R, G, B>>, its four bytes from the top one down.
\* 1000 * (0.299 R + 0.587 G + 0.114 B)
Luminance1000(pixel) == 299 * pixel[2] + 587 * pixel[3] + 114 * pixel[4]

\* lum * a + (1 - a) < 0.5 in exact arithmetic, with lum = L / 255000 and
\* a = A / 255, cleared of fractions.
BelowHalfExactly(pixel) == 2 * pixel[1] * (255000 - Luminance1000(pixel)) > 65025000

\* The pixels for which the f32 evaluation of argb_to_bw differs from the
\* exact one, found by evaluating both on all 2^32 pixels: in each of them
\* lum * a + (1 - a) is exactly 0.5 and the f32 value is 0.49999997.
RoundedBelowHalf ==
    {<<150, 68, 28, 13>>, <<170, 112, 50, 8>>, <<170, 116, 40, 49>>, <<170, 131, 31, 56>>,
     <<170, 135, 21, 97>>, <<170, 150, 12, 104>>, <<170, 172, 14, 36>>, <<180, 117, 64, 16>>,
     <<180, 136, 45, 64>>, <<204, 71, 118, 45>>, <<204, 109, 80, 141>>, <<204, 128, 61, 189>>,
     <<204, 150, 63, 121>>, <<204, 198, 57, 26>>, <<204, 217, 38, 74>>, <<204, 228, 39, 40>>,
     <<204, 236, 19, 122>>, <<204, 239, 40, 6>>, <<204, 247, 20, 88>>, <<204, 255, 0, 170>>,
     <<225, 54, 152, 45>>, <<225, 73, 133, 93>>, <<225, 92, 114, 141>>, <<225, 111, 95, 189>>,
     <<225, 130, 76, 237>>, <<225, 136, 118, 5>>, <<225, 152, 78, 169>>, <<225, 171, 59, 217>>,
     <<225, 181, 91, 26>>, <<225, 200, 72, 74>>, <<225, 215, 63, 81>>, <<225, 219, 53, 122>>,
     <<225, 222, 74, 6>>, <<225, 230, 54, 88>>, <<225, 241, 55, 54>>, <<225, 249, 35, 136>>,
     <<250, 10, 200, 40>>, <<250, 14, 190, 81>>, <<250, 15, 159, 238>>, <<250, 21, 201, 6>>,
     <<250, 26, 160, 204>>, <<250, 29, 181, 88>>, <<250, 33, 171, 129>>, <<250, 40, 182, 54>>,
     <<250, 45, 141, 252>>, <<250, 48, 162, 136>>, <<250, 52, 152, 177>>, <<250, 59, 163, 102>>,
     <<250, 67, 143, 184>>, <<250, 78, 144, 150>>, <<250, 86, 124, 232>>, <<250, 92, 166, 0>>,
     <<250, 96, 156, 41>>, <<250, 97, 125, 198>>, <<250, 108, 126, 164>>, <<250, 111, 147, 48>>,
     <<250, 115, 137, 89>>, <<250, 116, 106, 246>>, <<250, 123, 117, 171>>, <<250, 127, 107, 212>>,
     <<250, 130, 128, 96>>, <<250, 134, 118, 137>>, <<250, 137, 139, 21>>, <<250, 142, 98, 219>>,
     <<250, 149, 109, 144>>, <<250, 153, 99, 185>>, <<250, 156, 120, 69>>, <<250, 164, 100, 151>>,
     <<250, 167, 121, 35>>, <<250, 168, 90, 192>>, <<250, 171, 111, 76>>, <<250, 172, 80, 233>>,
     <<250, 175, 101, 117>>, <<250, 178, 122, 1>>, <<250, 183, 81, 199>>, <<250, 186, 102, 83>>,
     <<250, 187, 71, 240>>, <<250, 190, 92, 124>>, <<250, 194, 82, 165>>, <<250, 197, 103, 49>>,
     <<250, 202, 62, 247>>, <<250, 205, 83, 131>>, <<250, 208, 104, 15>>, <<250, 209, 73, 172>>,
     <<250, 213, 63, 213>>, <<250, 216, 84, 97>>, <<250, 217, 53, 254>>, <<250, 224, 64, 179>>,
     <<250, 228, 54, 220>>, <<250, 235, 65, 145>>, <<250, 243, 45, 227>>, <<250, 250, 56, 152>>,
     <<250, 253, 77, 36>>, <<250, 254, 46, 193>>, <<255, 37, 197, 7>>, <<255, 56, 178, 55>>,
     <<255, 75, 159, 103>>, <<255, 86, 160, 69>>, <<255, 105, 141, 117>>, <<255, 154, 104, 179>>,
     <<255, 173, 85, 227>>, <<255, 217, 89, 91>>, <<255, 224, 100, 16>>, <<255, 232, 80, 98>>,
     <<255, 236, 70, 139>>, <<255, 243, 81, 64>>, <<255, 251, 61, 146>>, <<255, 255, 51, 187>>}

\* value < 0.5 as the f32 arithmetic of argb_to_bw decides it; TRUE is
\* foreground (black).
argb_to_bw(pixel) == BelowHalfExactly(pixel) \/ pixel \in RoundedBelowHalf

Pixels == {0, 128, 170, 255} \X (0..255) \X {0, 51, 89, 128, 197, 255} \X {0, 7, 91, 187, 255}

InitPixel ==
    /\ SessionInit
    /\ mode = "test"
    /\ call \in [fn : {"argb_to_bw"}, pixel : Pixels]
    /\ ret = Pending

ArgbToBw ==
    /\ call.fn = "argb_to_bw"
    /\ ~ret.done
    /\ ret' = [done |-> TRUE, value |-> argb_to_bw(call.pixel)]
    /\ UNCHANGED <<vars, call>>

NextPixel == ArgbToBw

SpecPixel == InitPixel /\ [][NextPixel]_allvars


\* ========================================================== BwIcon::scale
\* A BwIcon is [width, height, data]; data is a sequence of booleans, TRUE
\* black, and need not have width * height elements.
ScalePanic == [panicked |-> TRUE, width |-> 0, height |-> 0, data |-> << >>]

\* self.data.get(idx).copied().unwrap_or(false), idx 0-based.
PixelOr(data, idx) == IF idx < Len(data) THEN data[idx + 1] ELSE FALSE

\* Nearest-neighbour scaling.  `target_size * target_size` is a u16 product:
\* with overflow checks it panics from 256 on, without them it wraps and only
\* sizes the allocation.  The k-th pixel pushed (k from 1) is that of
\* y = (k - 1) / target_size, x = (k - 1) % target_size.
scale(build, icon, target_size) ==
    IF target_size * target_size >= U16 /\ build = "debug"
    THEN ScalePanic
    ELSE [panicked |-> FALSE,
          width |-> target_size,
          height |-> target_size,
          data |-> [k \in 1..(target_size * target_size) |->
                       LET x == (k - 1) % target_size
                           y == (k - 1) \div target_size
                           src_x == (x * icon.width) \div target_size
                           src_y == (y * icon.height) \div target_size
                       IN PixelOr(icon.data, src_y * icon.width + src_x)]]

\* Bitmaps of up to MaxSide x MaxSide with any data up to that size, also
\* data shorter or longer than width * height.
Bitmaps ==
    [width : 0..MaxSide, height : 0..MaxSide,
     data : UNION {[1..n -> BOOLEAN] : n \in 0..(MaxSide * MaxSide)}]

\* A 1 x 1 black bitmap, scaled to the first size whose square leaves u16.
ScaleCalls ==
    [fn : {"scale"}, build : Builds, icon : Bitmaps, target_size : 0..MaxTarget]
    \cup [fn : {"scale"}, build : Builds,
          icon : {[width |-> 1, height |-> 1, data |-> <<TRUE>>]},
          target_size : {256}]

InitScale ==
    /\ SessionInit
    /\ mode = "test"
    /\ call \in ScaleCalls
    /\ ret = Pending

\* icon.scale(target_size)
Scale ==
    /\ call.fn = "scale"
    /\ ~ret.done
    /\ ret' = [done |-> TRUE, times |-> 1,
               value |-> scale(call.build, call.icon, call.target_size)]
    /\ UNCHANGED <<vars, call>>

\* .scale(target_size) applied to the result.
ScaleAgain ==
    /\ call.fn = "scale"
    /\ ret.done
    /\ ret.times = 1
    /\ ~ret.value.panicked
    /\ ret' = [done |-> TRUE, times |-> 2, value |-> ret.value,
               again |-> scale(call.build, ret.value, call.target_size)]
    /\ UNCHANGED <<vars, call>>

NextScale == Scale \/ ScaleAgain

SpecScale == InitScale /\ [][NextScale]_allvars

\* ---- find_window_with_title on a top-level child: window 1 of every window
\* ---- tree of up to MaxNodes windows, and of every chain
InitFind ==
    /\ SessionInit
    /\ mode = "test"
    /\ \/ \E n \in 1..MaxNodes : \E p \in Parents(n) :
             \E k \in [1..n -> NodeKinds], rk \in {Untitled} :
                call = WalkCall(Server(n, p, k, rk), 1)
       \/ \E len \in 1..MaxChain : \E at \in 0..len :
             call = WalkCall(ChainServer(len, at), 1)
    /\ ret = Pending

NextFind == FindWindowWithTitle

SpecFind == InitFind /\ [][NextFind]_allvars


\* ========================================= the icon of a candidate window
\* The four bytes A, R, G, B of a pixel word.
ArgbBytes(argb) ==
    <<(argb \div (2 ^ 24)) % 256, (argb \div U16) % 256, (argb \div 256) % 256, argb % 256>>

\* create_generic_icon(size): border, title bar band and inner border.
create_generic_icon(size) ==
    LET s == size
        titlebar_h == s \div 5
        border == 2
    IN [panicked |-> FALSE, width |-> size, height |-> size,
        data |-> [k \in 1..(s * s) |->
                     LET x == (k - 1) % s
                         y == (k - 1) \div s
                     IN \/ x < border \/ x >= s - border \/ y < border \/ y >= s - border
                        \/ y < titlebar_h + border
                        \/ x = border \/ x = s - border - 1 \/ y = s - border - 1]]

\* get_window_icon on the reply to the _NET_WM_ICON request: [kind |-> "error"]
\* when a request fails, else [kind |-> "value", data |-> the property's
\* words].  None is << >>, Some(icon) is <<icon>>; a panic of find_best_icon
\* or scale is the panic of the function.
get_window_icon(build, reply, target_size) ==
    IF reply.kind = "error" THEN << >>
    ELSE IF Len(reply.data) < 2 THEN << >>
    ELSE LET found == find_best_icon(build, reply.data, target_size)
         IN IF found.panicked THEN <<ScalePanic>>
            ELSE IF found.best = << >> THEN << >>
            ELSE LET rec == found.best[1]
                     bw == [i \in 1..rec.count |->
                               argb_to_bw(ArgbBytes(reply.data[rec.start + i]))]
                 IN <<scale(build,
                            [width |-> rec.width % U16, height |-> rec.height % U16,
                             data |-> bw],
                            target_size)>>

\* get_window_icon(conn, wid, ICON_SIZE).unwrap_or_else(|| generic_icon.scale(ICON_SIZE))
CandidateIcon(build, reply) ==
    LET icon == get_window_icon(build, reply, ICON_SIZE)
    IN IF icon # << >> THEN icon[1]
       ELSE scale(build, create_generic_icon(ICON_SIZE), ICON_SIZE)

\* The property's words: dimensions 0, 1 and 2^16, pixels of alpha 0.
IconReplies ==
    {[kind |-> "error", data |-> << >>]}
    \cup [kind : {"value"}, data : UNION {[1..n -> {0, 1, U16}] : n \in 0..MaxWords}]

InitCandidateIcon ==
    /\ SessionInit
    /\ mode = "test"
    /\ call \in [fn : {"candidate_icon"}, build : Builds, reply : IconReplies]
    /\ ret = Pending

MakeCandidateIcon ==
    /\ call.fn = "candidate_icon"
    /\ ~ret.done
    /\ ret' = [done |-> TRUE, value |-> CandidateIcon(call.build, call.reply)]
    /\ UNCHANGED <<vars, call>>

NextCandidateIcon == MakeCandidateIcon

SpecCandidateIcon == InitCandidateIcon /\ [][NextCandidateIcon]_allvars


\* ================================================ geometry of the drawing
TITLE_HEIGHT == 24

\* create_x11_window: the size of the window it creates for a layout.
\* rows is computed and dropped; the height is that of one row of icons.
create_x11_window(layout) ==
    [width |-> layout.win_width,
     height |-> (ICON_SIZE + PADDING * 2 + TITLE_HEIGHT) % U16]

\* draw_switcher: the rectangle cleared and drawn for candidate i (0-based).
CellOf(layout, i) ==
    LET col == (i % U16) % layout.cols
        row == (i % U16) \div layout.cols
    IN [x |-> (PADDING + col * (ICON_SIZE + PADDING)) % U16,
        y |-> (PADDING + row * (ICON_SIZE + PADDING)) % U16,
        width |-> ICON_SIZE,
        height |-> ICON_SIZE]

\* draw_title_bar: the rectangle cleared for the title.
TitleBarOf(layout, count) ==
    LET rows == Max2((((count % U16) + layout.cols - 1) % U16) \div layout.cols, 1)
        icons_height == (rows * (ICON_SIZE + PADDING) + PADDING) % U16
    IN [x |-> 0, y |-> icons_height, width |-> layout.win_width, height |-> TITLE_HEIGHT]

\* A session of count candidates on a screen of the given width: the window
\* created by create_switcher_window and what draw_switcher draws into it.
DrawingOf(build, width, count) ==
    LET layout == calculate_layout(build, width, count)
    IN IF layout.panicked
       THEN [panicked |-> TRUE, window |-> [width |-> 0, height |-> 0],
             cells |-> << >>, title_bg |-> [x |-> 0, y |-> 0, width |-> 0, height |-> 0]]
       ELSE [panicked |-> FALSE,
             window |-> create_x11_window(layout),
             cells |-> [k \in 1..count |-> CellOf(layout, k - 1)],
             title_bg |-> TitleBarOf(layout, count)]

InitDraw ==
    /\ SessionInit
    /\ mode = "test"
    /\ call \in [fn : {"draw_switcher"}, build : Builds,
                 width : ScreenWidths, count : 1..MaxWindowCount]
    /\ ret = Pending

DrawSwitcher ==
    /\ call.fn = "draw_switcher"
    /\ ~ret.done
    /\ ret' = [done |-> TRUE, value |-> DrawingOf(call.build, call.width, call.count)]
    /\ UNCHANGED <<vars, call>>

NextDraw == DrawSwitcher

SpecDraw == InitDraw /\ [][NextDraw]_allvars


\* ================================================================ claims

\* The session is over: show_switcher / run_test_mode has returned.
SessionEnded == pc \in {"daemon_wait", "exited"} /\ closeKind # "none"

\* The session is Open with no event taken yet.
JustOpened == pc = "loop" /\ lastEv = NoEvent

TabPress(shift) == [type |-> "KeyPress", detail |-> TAB_KEYCODE, shift |-> shift]
EscapePress == [type |-> "KeyPress", detail |-> ESCAPE_KEYCODE, shift |-> FALSE]
ReturnPress == [type |-> "KeyPress", detail |-> RETURN_KEYCODE, shift |-> FALSE]
AltReleases ==
    {[type |-> "KeyRelease", detail |-> k, shift |-> FALSE] :
        k \in {ALT_L_KEYCODE, ALT_R_KEYCODE}}

\* C1: with count > 0 candidates the selected index satisfies
\* 0 <= index < count, after the initial selection and after every event,
\* in both modes.
C1_IndexInRange ==
    Len(windows) > 0 => (selected >= 0 /\ selected < Len(windows))

\* Two forward Tab presses took a daemon session of three candidates from
\* index 1 round to index 0.
C1_Witness ==
    /\ pc = "loop"
    /\ Len(windows) = 3
    /\ tabs = <<FALSE, FALSE>>
    /\ initSel = 1
    /\ selected = 0

SurfaceHandedOver ==
    /\ surface # "none"
    /\ \A i \in 1..Len(CreateCalls) : failedCall # CreateCalls[i]

\* C3: in both modes, a surface that was created for the session is
\* destroyed by the time the session has ended, on every exit path: commit,
\* cancel, empty candidate list, and any failing request (a failing keyboard
\* grab or ungrab among them).
C3_SurfaceDestroyed ==
    (SessionEnded /\ SurfaceHandedOver) => surface = "destroyed"

\* C4: a session with zero candidates ends without the surface ever having
\* been created and without any activation call.
C4_NoSurfaceWhenEmpty ==
    (SessionEnded /\ closeKind = "empty")
    => (surface = "none" /\ activated = << >>)

\* The index initSel moved by the Tab presses in tabs, among count candidates.
RECURSIVE Forward(_)
Forward(ts) ==
    IF ts = << >> THEN 0 ELSE (IF Head(ts) THEN 0 ELSE 1) + Forward(Tail(ts))
IndexAfterTabs(init, ts, count) ==
    (init + Forward(ts) + (Len(ts) - Forward(ts)) * (count - 1)) % count

\* C5: in daemon mode the release of left or right Alt in an Open session
\* closes it as Committed and calls activation, once, with the handle of the
\* candidate at the index reached by the initial selection and the Tab
\* presses taken before the release.
C5_AltReleaseCommits ==
    (mode = "daemon" /\ lastEv \in AltReleases)
    => (/\ closeKind = "committed"
        /\ pc # "loop"
        /\ selected = IndexAfterTabs(initSel, tabs, Len(windows))
        /\ activated = <<windows[IndexAfterTabs(initSel, tabs, Len(windows)) + 1].wid>>)

\* Alt was released after two backward Tab presses from index 1 of three
\* candidates: the third candidate was activated.
C5_Witness ==
    /\ mode = "daemon"
    /\ lastEv \in AltReleases
    /\ Len(windows) = 3
    /\ initSel = 1
    /\ tabs = <<TRUE, TRUE>>
    /\ activated = <<windows[3].wid>>

\* C6: Escape pressed in an Open session closes it as Cancelled, in both
\* modes, and no activation call is made in that session, whatever Tab
\* presses came before.
C6_EscapeCancels ==
    lastEv = EscapePress
    => (/\ closeKind = "cancelled"
        /\ pc # "loop"
        /\ result = "ok"
        /\ activated = << >>)

\* Escape was pressed in test mode after a Tab press moved the selection.
C6_Witness ==
    /\ mode = "test"
    /\ lastEv = EscapePress
    /\ tabs # << >>
    /\ selected # 0
    /\ closeKind = "cancelled"

\* C7: Return commits the current index in test mode only and leaves a
\* daemon-mode session Open with the index unchanged; the release of Alt
\* commits in daemon mode only and leaves a test-mode session Open with the
\* index unchanged.
C7_CommitTriggerPerMode ==
    /\ (mode = "test" /\ lastEv = ReturnPress)
       => (/\ closeKind = "committed"
           /\ pc # "loop"
           /\ activated = <<windows[prevSel + 1].wid>>)
    /\ (mode = "daemon" /\ lastEv = ReturnPress)
       => (/\ pc = "loop"
           /\ closeKind = "none"
           /\ selected = prevSel
           /\ activated = << >>)
    /\ (mode = "daemon" /\ lastEv \in AltReleases)
       => (/\ closeKind = "committed"
           /\ pc # "loop"
           /\ activated = <<windows[prevSel + 1].wid>>)
    /\ (mode = "test" /\ lastEv \in AltReleases)
       => (/\ pc = "loop"
           /\ closeKind = "none"
           /\ selected = prevSel
           /\ activated = << >>)

\* Return was pressed in a daemon session after a Tab press: the session is
\* still Open.
C7_Witness ==
    /\ mode = "daemon"
    /\ lastEv = ReturnPress
    /\ tabs # << >>
    /\ pc = "loop"

\* The initial index the claim states.
ClaimedInitial(count, shift) ==
    IF count = 1 THEN 0 ELSE IF shift THEN count - 1 ELSE 1

C9_TabForward ==
    lastEv = TabPress(FALSE)
    => selected = (prevSel + 1) % Len(windows)

\* Tab without Shift at the last of three candidates wrapped to the first.
C9_Witness ==
    /\ lastEv = TabPress(FALSE)
    /\ Len(windows) = 3
    /\ prevSel = 2
    /\ selected = 0

\* C10: after a Tab press with Shift in an Open session the index is count-1
\* when it was 0 and one less otherwise, and no subtraction went below zero.
C10_TabBackward ==
    lastEv = TabPress(TRUE)
    => (/\ selected # Underflow
        /\ selected = (IF prevSel = 0 THEN Len(windows) - 1 ELSE prevSel - 1))

\* Tab with Shift at the first of three candidates wrapped to the last.
C10_Witness ==
    /\ lastEv = TabPress(TRUE)
    /\ Len(windows) = 3
    /\ prevSel = 0
    /\ selected = 2


\* C11: an Expose event in an Open session, and every other event that is
\* not a Tab press, a cancel or the mode's commit trigger, leaves the selected
\* index and the candidate list unchanged and keeps the session Open.
C11_OtherEventsChangeNothing ==
    [][(/\ pc = "loop"
        /\ lastEv' \in Events
        /\ Effect(mode, lastEv') \in {"redraw", "ignore"})
       => (/\ selected' = selected
           /\ windows' = windows
           /\ pc' = "loop"
           /\ closeKind' = "none")]_allvars

\* The requests whose failure the spec lets end the process: those of
\* create_x11_window.  (The initial connection is made before Init.)
FatalCalls == {CreateCalls[i] : i \in 1..Len(CreateCalls)}

\* C12: the failure of a windowing call other than the initial connection
\* and the creation of the surface is absorbed: the session does not end with
\* an error and the process does not end with one.
C12_FailuresAbsorbed ==
    (failedCall # "none" /\ failedCall \notin FatalCalls)
    => (closeKind # "error" /\ result # "err" /\ ~(pc = "exited" /\ ~exitOk))

\* The entries of window_list that pass the WM_STATE test and whose title no
\* earlier entry that passes it has.
FirstAdmitted ==
    {i \in 1..Len(window_list) :
        /\ window_list[i].managed
        /\ \A j \in 1..(i - 1) :
              window_list[j].managed => window_list[j].title # window_list[i].title}

\* The k-th of them in input order.
KthFirstAdmitted(k) ==
    CHOOSE i \in FirstAdmitted : Cardinality({j \in FirstAdmitted : j < i}) = k - 1

\* C14: the candidate list holds each title at most once; the entry kept for
\* a title is its first admitted occurrence in the input, with that
\* occurrence's handle; the candidates keep their input order.
C14_DedupKeepsFirst ==
    pc = "created"
    => (/\ \A a, b \in 1..Len(windows) : a # b => windows[a].title # windows[b].title
        /\ Len(windows) = Cardinality(FirstAdmitted)
        /\ \A k \in 1..Len(windows) :
              /\ windows[k].wid = window_list[KthFirstAdmitted(k)].wid
              /\ windows[k].title = window_list[KthFirstAdmitted(k)].title)

\* Titles A, B, A, all managed: the candidates are the first A and the B.
C14_Witness ==
    /\ pc = "created"
    /\ Len(window_list) = 3
    /\ \A i \in 1..3 : window_list[i].managed
    /\ window_list[1].title = "A"
    /\ window_list[2].title = "B"
    /\ window_list[3].title = "A"
    /\ windows = <<[wid |-> Wid(1), title |-> "A"], [wid |-> Wid(2), title |-> "B"]>>

\* C13: for every 16-bit screen width w and every candidate count n >= 0,
\* calculate_layout underflows, overflows and divides by zero nowhere, and
\* returns 1 <= columns <= 20, columns <= max(1, n),
\* columns = min(n, max(1, (floor(0.8 w) - 8) / 56), 20) floored at 1, and
\* win_width = columns * 56 + 8.
C13_LayoutContract ==
    (call.fn = "calculate_layout" /\ ret.done)
    => (/\ ~ret.panicked
        /\ ~ret.wrapped
        /\ 1 <= ret.cols
        /\ ret.cols <= 20
        /\ ret.cols <= Max2(1, call.count)
        /\ ret.cols =
              Max2(Min2(Min2(call.count,
                             Max2(1, (((8 * call.width) \div 10) - 8) \div 56)),
                        20),
                   1)
        /\ ret.win_width = ret.cols * 56 + 8)

\* ---- the window tree of a collect_windows_by_zorder call, read from its
\* ---- server record
TreeWindows == DOMAIN call.x.kids \ {0}
TopLevel == call.x.kids[0]
ParentOf(w) ==
    CHOOSE q \in DOMAIN call.x.kids : \E i \in 1..Len(call.x.kids[q]) : call.x.kids[q][i] = w

\* w and its ancestors below the root.
RECURSIVE Ancestors(_)
Ancestors(w) == IF w = 0 THEN {} ELSE {w} \cup Ancestors(ParentOf(w))

Subtree(t) == {w \in TreeWindows : t \in Ancestors(w)}
TopOf(w) == CHOOSE t \in Ancestors(w) : ParentOf(t) = 0
TopIndex(t) == CHOOSE i \in 1..Len(TopLevel) : TopLevel[i] = t

\* A viewable window with a title.
Qualifies(w) == call.x.attrs[w] = "viewable" /\ call.x.title[w] = "some"

\* Every query on w is answered.
Answered(w) ==
    call.x.attrs[w] # "fail" /\ call.x.title[w] # "fail" /\ call.x.tree[w] # "fail"

Collected == call.fn = "collect_windows_by_zorder" /\ ret.done
Returned == {ret.value.list[i].wid : i \in 1..Len(ret.value.list)}
Examined == {e[1] : e \in ret.value.examined}

\* C15: collect_windows_by_zorder returns the candidates in the reverse of
\* the order in which the root's children are reported, at most one candidate
\* per top-level child; a top-level child with no qualifying window is
\* skipped, and one whose subtree answers every query and holds a qualifying
\* window contributes one.
C15_ReverseOrderOnePerChild ==
    Collected
    => (/\ \A i \in 1..Len(ret.value.list) : Qualifies(ret.value.list[i].wid)
        /\ \A i, j \in 1..Len(ret.value.list) :
              i < j => TopIndex(TopOf(ret.value.list[i].wid))
                          > TopIndex(TopOf(ret.value.list[j].wid))
        /\ call.x.tree[0] = "ok"
           => \A i \in 1..Len(TopLevel) :
                 ((\A w \in Subtree(TopLevel[i]) : Answered(w))
                  /\ (\E w \in Subtree(TopLevel[i]) : Qualifies(w)))
                 => \E w \in Returned : TopOf(w) = TopLevel[i])

\* Three top-level children, the middle one without a qualifying window:
\* the last-reported child comes first.
C15_Witness ==
    /\ Collected
    /\ DOMAIN call.x.kids = 0..3
    /\ TopLevel = <<1, 2, 3>>
    /\ ~Qualifies(2)
    /\ Len(ret.value.list) = 2
    /\ ret.value.list[1].wid = 3
    /\ ret.value.list[2].wid = 1

\* A query on w that was sent failed: the attributes; the title of a
\* viewable window; the children of a window that did not qualify.
QueryFailed(w) ==
    /\ w \in Examined
    /\ \/ call.x.attrs[w] = "fail"
       \/ call.x.attrs[w] = "viewable" /\ call.x.title[w] = "fail"
       \/ ~Qualifies(w) /\ call.x.tree[w] = "fail"

\* The sibling reported after w, as a sequence of length <= 1.
NextSibling(w) ==
    LET sibs == call.x.kids[ParentOf(w)]
        i == CHOOSE k \in 1..Len(sibs) : sibs[k] = w
    IN IF i < Len(sibs) THEN <<sibs[i + 1]>> ELSE << >>

\* A failed query never aborts the enumeration: every top-level child is
\* searched, and when nothing is returned from below a window its next
\* sibling is searched.
NeverAborts ==
    /\ call.x.tree[0] = "ok" => \A i \in 1..Len(TopLevel) : TopLevel[i] \in Examined
    /\ \A w \in TreeWindows :
          (QueryFailed(w) /\ Returned \cap Subtree(w) = {} /\ NextSibling(w) # << >>)
          => NextSibling(w)[1] \in Examined

Walked == call.fn = "find_window_with_title" /\ ret.done

\* C17: find_window_with_title returns for every child relation with finite
\* branching, cycles included, and neither examines nor returns a window more
\* than 10 levels below the window it started from.
C17_SearchBounded ==
    Walked
    => (/\ ~ret.value.out
        /\ \A e \in ret.value.examined : e[2] <= 10
        /\ ret.value.result # << >>
           => \E e \in ret.value.examined : e[1] = ret.value.result[1].wid /\ e[2] <= 10)

\* Two untitled windows that are each other's only child: the search
\* examines levels 0..10 and returns None.
C17_Witness ==
    /\ Walked
    /\ DOMAIN call.x.kids = {1, 2}
    /\ call.x.kids[1] = <<2>>
    /\ call.x.kids[2] = <<1>>
    /\ ret.value.result = << >>
    /\ {e[2] : e \in ret.value.examined} = 0..10

Parsed == call.fn = "find_best_icon" /\ ret.done

\* The records of call.data from word idx (0-based) on whose declared
\* width x height pixels all lie in the buffer, up to the first record that
\* is zero-sized or truncated.  Exact arithmetic: width * height <= room is
\* tested as height <= room / width.
RECURSIVE FullyParsed(_)
FullyParsed(idx) ==
    IF idx + 2 < Len(call.data)
       /\ call.data[idx + 1] > 0
       /\ call.data[idx + 2] > 0
       /\ call.data[idx + 2] <= (Len(call.data) - idx - 2) \div call.data[idx + 1]
    THEN {[width |-> call.data[idx + 1], height |-> call.data[idx + 2],
           start |-> idx + 2, count |-> call.data[idx + 1] * call.data[idx + 2]]}
         \cup FullyParsed(idx + 2 + call.data[idx + 1] * call.data[idx + 2])
    ELSE {}

\* C18: for every word buffer find_best_icon indexes no word past the end,
\* accepts a record only if width > 0, height > 0 and its width * height
\* pixels lie within the rest of the buffer (also when width * height exceeds
\* 32 bits), and a truncated or zero-sized record stops the parse while the
\* valid records before it still yield a result.
C18_ParseWithinBuffer ==
    Parsed
    => (/\ ~ret.value.panicked
        /\ \A i \in ret.value.reads : i < Len(call.data)
        /\ {ret.value.accepted[i] : i \in 1..Len(ret.value.accepted)} = FullyParsed(0)
        /\ FullyParsed(0) # {} => ret.value.best # << >>)

Distance(r) == IAbs(r.width - call.target_size) + IAbs(r.height - call.target_size)

\* C19: the selected record is a fully parsed record that minimises
\* |width - target| + |height - target| among the fully parsed records, and
\* when a fully parsed record at the minimum has width >= target, so has the
\* selected one.
C19_ClosestRecordSelected ==
    Parsed
    => (/\ FullyParsed(0) = {} => ret.value.best = << >>
        /\ FullyParsed(0) # {}
           => (/\ ret.value.best # << >>
               /\ ret.value.best[1] \in FullyParsed(0)
               /\ \A r \in FullyParsed(0) : Distance(ret.value.best[1]) <= Distance(r)
               /\ \A r \in FullyParsed(0) :
                     (Distance(r) = Distance(ret.value.best[1]) /\ r.width >= call.target_size)
                     => ret.value.best[1].width >= call.target_size))

Converted == call.fn = "argb_to_bw" /\ ret.done

\* C20: argb_to_bw maps a pixel with alpha 0 to background whatever its RGB,
\* opaque black to foreground and opaque white to background, and a pixel
\* with alpha 255 to foreground exactly when 0.299 R + 0.587 G + 0.114 B is
\* below half of 255.
C20_LuminanceThreshold ==
    Converted
    => (/\ call.pixel[1] = 0 => ~ret.value
        /\ call.pixel = <<255, 0, 0, 0>> => ret.value
        /\ call.pixel = <<255, 255, 255, 255>> => ~ret.value
        /\ call.pixel[1] = 255
           => (ret.value <=> 2 * (299 * call.pixel[2] + 587 * call.pixel[3]
                                     + 114 * call.pixel[4]) < 255000))

\* C21: for every bitmap and every target size S, scale(scale(icon, S), S)
\* equals scale(icon, S) in width, height and every pixel: the first scaling
\* yields a bitmap, and scaling that again yields the same bitmap.
C21_ScaleIdempotent ==
    (call.fn = "scale" /\ ret.done)
    => (/\ ~ret.value.panicked
        /\ ret.times = 2
           => (/\ ~ret.again.panicked
               /\ ret.again.width = ret.value.width
               /\ ret.again.height = ret.value.height
               /\ ret.again.data = ret.value.data))

\* The session has opened and no request of it has failed.
OpenedCleanly ==
    \/ pc = "loop"
    \/ closeKind \in {"cancelled", "committed"}

RECURSIVE PreOrder(_, _)
RECURSIVE PreOrderOfChildren(_, _, _)
PreOrder(w, level) ==
    <<[window |-> w, level |-> level]>>
    \o (IF call.x.tree[w] = "ok"
        THEN PreOrderOfChildren(call.x.kids[w], 1, level + 1)
        ELSE << >>)
PreOrderOfChildren(children, i, level) ==
    IF i > Len(children) THEN << >>
    ELSE PreOrder(children[i], level) \o PreOrderOfChildren(children, i + 1, level)

\* The first window of a sequence of windows with levels that is viewable and
\* titled, as a sequence of length <= 1.
FirstQualifying(ws) ==
    LET hits == SelectSeq(ws, LAMBDA e : Qualifies(e.window))
    IN IF hits = << >> THEN << >> ELSE <<hits[1].window>>

FoundWindow ==
    IF ret.value.result = << >> THEN << >> ELSE <<ret.value.result[1].wid>>

\* C23 as stated: find_window_with_title returns the first window in
\* depth-first pre-order that is viewable and has a title; an unmapped window
\* with a title is not returned but its children are searched.
C23_Original ==
    Walked => FoundWindow = FirstQualifying(PreOrder(call.window, 0))

\* C23 (amended): it returns the first such window among those at most 10
\* levels below the window it started from, and None when there is none.
C23_FirstInPreOrder ==
    Walked
    => FoundWindow
          = FirstQualifying(SelectSeq(PreOrder(call.window, 0), LAMBDA e : e.level <= 10))

\* Window 1 has a title but is unmapped; its first child 2 is viewable but
\* untitled; its second child 3 is viewable and titled and is returned.
C23_Witness ==
    /\ Walked
    /\ DOMAIN call.x.kids = 0..3
    /\ call.x.kids[1] = <<2, 3>>
    /\ call.x.attrs[1] = "unmapped"
    /\ call.x.title[1] = "some"
    /\ ~Qualifies(2)
    /\ FoundWindow = <<3>>

\* C24: the icon of every candidate is square with width = height = 48 and
\* width * height pixels, whether its icon property decoded, was malformed
\* (records whose width or height exceeds 16 bits included) or was missing
\* and the fallback icon took its place; no property makes the decoding fail.
C24_IconSquare48 ==
    (call.fn = "candidate_icon" /\ ret.done)
    => (/\ ~ret.value.panicked
        /\ ret.value.width = 48
        /\ ret.value.height = 48
        /\ Len(ret.value.data) = 48 * 48)

\* window_list with the windows without WM_STATE removed.
FilteredFirst == SelectSeq(window_list, LAMBDA w : w.managed)

\* The positions of a list whose title no earlier position has.
FirstOfTitle(list) ==
    {i \in 1..Len(list) : \A j \in 1..(i - 1) : list[j].title # list[i].title}

\* A list cut down to those positions, in order.
RECURSIVE DedupSecond(_, _)
DedupSecond(list, i) ==
    IF i > Len(list) THEN << >>
    ELSE (IF i \in FirstOfTitle(list)
          THEN <<[wid |-> list[i].wid, title |-> list[i].title]>>
          ELSE << >>)
         \o DedupSecond(list, i + 1)

\* C25: the one-pass loop gives what filtering by WM_STATE first and
\* deduplicating by title second gives: a window without WM_STATE does not
\* mark its title as seen, and every candidate has WM_STATE.
C25_FilterThenDedup ==
    pc = "created"
    => (/\ windows = DedupSecond(FilteredFirst, 1)
        /\ \A k \in 1..Len(windows) : \E i \in 1..Len(window_list) :
              window_list[i].wid = windows[k].wid /\ window_list[i].managed)

\* An unmanaged window titled A, then a managed one titled A: the second is
\* the candidate.
C25_Witness ==
    /\ pc = "created"
    /\ Len(window_list) = 2
    /\ window_list[1].title = "A" /\ ~window_list[1].managed
    /\ window_list[2].title = "A" /\ window_list[2].managed
    /\ windows = <<[wid |-> Wid(2), title |-> "A"]>>

\* The rectangle r lies inside a window of the given size.
InsideWindow(r, window) ==
    /\ r.x >= 0
    /\ r.y >= 0
    /\ r.x + r.width <= window.width
    /\ r.y + r.height <= window.height

\* C26: for every candidate count and screen width, the grid cell of every
\* candidate and the title bar drawn below the rows of icons lie entirely
\* inside the rectangle of the surface created for the session.
C26_DrawnInsideSurface ==
    (call.fn = "draw_switcher" /\ ret.done)
    => (/\ \A k \in 1..Len(ret.value.cells) :
              InsideWindow(ret.value.cells[k], ret.value.window)
        /\ InsideWindow(ret.value.title_bg, ret.value.window))

\* C27: in a session activation is invoked at most once, only with the
\* handle of one of the session's candidates, and the event loop has ended
\* as Committed when it was; a cancelled session has no activation.
C27_ActivationOnceAtClose ==
    /\ Len(activated) <= 1
    /\ activated # << >>
       => (/\ pc # "loop"
           /\ closeKind = "committed"
           /\ \E k \in 1..Len(windows) : windows[k].wid = activated[1])
    /\ closeKind = "cancelled" => activated = << >>

\* A daemon session of three candidates, opened at the second, came back to
\* it by a forward and a backward Tab press and committed it.
C27_Witness ==
    /\ mode = "daemon"
    /\ pc = "daemon_wait"
    /\ closeKind = "committed"
    /\ Len(windows) = 3
    /\ tabs = <<FALSE, TRUE>>
    /\ activated = <<windows[2].wid>>

\* While the daemon runs, the keyboard grab is held only inside
\* show_switcher (when the process has exited the server has dropped it).
GrabOnlyInSession == (kb_grab /\ pc # "exited") => pc \in {"loop", "cleanup"}

\* A session opens on a list enumerated for it and at its initial index,
\* with nothing carried over from the session before.
OpensFresh ==
    /\ pc = "created" => windows = deduplicate_windows(window_list)
    /\ JustOpened
       => (/\ selected = initial_selection(Len(windows), shift_held)
           /\ tabs = << >>
           /\ activated = << >>)

\* show_switcher returns to the daemon's wait after a commit or a cancel.
IdleAgain ==
    (mode = "daemon" /\ pc = "cleanup" /\ closeKind \in {"committed", "cancelled"})
    => pc' = "daemon_wait"

\* C28: in daemon mode the keyboard grab is held only while a session is
\* Open, a session that closed by commit or cancel leaves the daemon idle
\* again, waiting for the next Tab press, and the session that press opens
\* has a freshly enumerated list and a freshly initialised index.  (There is
\* one control loop, so at most one session is Open.)
C28_DaemonIdleAfterSession ==
    /\ [](mode = "daemon" => (GrabOnlyInSession /\ OpensFresh))
    /\ [][IdleAgain]_allvars

====
